---- MODULE Spec2Model ----
(***************************************************************************)
(* grpc-resilient: the connection manager, the call orchestrator, the      *)
(* fallback cache and the metrics tracker of ResilientGrpcClient.          *)
(*                                                                         *)
(* Scheduling model (Node.js event loop).  A step is one synchronous run   *)
(* of code between two suspension points.  Transport callbacks and timer   *)
(* firings are macrotasks: they run only when no promise continuation is   *)
(* queued (MicrotasksPending).  The continuations of the awaiters of one   *)
(* connect() promise are queued together when the promise settles, so     *)
(* they run in the same step as the completion of the attempt.  The       *)
(* application may invoke the public API between any two steps.            *)
(*                                                                         *)
(* The transport (grpc-js) is an external collaborator: the outcome of     *)
(* waitForReady, of a unary invocation and of a connectivity probe is a    *)
(* nondeterministic input of the step that receives it.                    *)
(***************************************************************************)
EXTENDS Integers, Sequences, FiniteSets, TLC

\* ------------------------------------------------------------------ bounds
NULL == 0
\* total number of handles the transport factory may create in one run of
\* the connection manager alone, and in one run with call() invocations
MaxHandles == 3
MaxCallHandles == 2
\* config.maxReconnectAttempts
MaxReconnectAttempts == 2
\* number of application tasks that call ensureConnected() directly
NCallers == 3

\* number of application tasks that invoke call()
NCalls == 2
\* total number of call() invocations in one run
MaxCalls == 2
\* config.retryCount
RetryCount == 1
\* config.maxCacheSize
MaxCacheSize == 1

Handles == 1..MaxHandles
Callers == 1..NCallers
Calls == (NCallers + 1)..(NCallers + NCalls)
\* effective cache keys and response payloads
Keys == {"k1", "k2"}
\* keys and capacities of a FallbackCache used on its own
CacheKeys == {"k1", "k2", "k3"}
MaxLruSize == 2
Responses == {"r1", "r2"}
\* wire status codes the transport reports; NOCODE: an error without a code
ErrorCodes == {"UNAVAILABLE", "DEADLINE_EXCEEDED", "INVALID_ARGUMENT"}
NOCODE == "NOCODE"
\* the ServiceError of a transport callback: status code, details and message
\* (NoWireError: the callback's error argument is null)
WireErrors ==
  { [code |-> "UNAVAILABLE", details |-> "", message |-> "14 UNAVAILABLE"],
    [code |-> "DEADLINE_EXCEEDED", details |-> "Deadline exceeded",
     message |-> "4 DEADLINE_EXCEEDED: Deadline exceeded"],
    [code |-> "INVALID_ARGUMENT", details |-> "", message |-> "3 INVALID_ARGUMENT"],
    [code |-> "INVALID_ARGUMENT", details |-> "bad id",
     message |-> "3 INVALID_ARGUMENT: bad id"] }
NoWireError == [code |-> NOCODE, details |-> "", message |-> ""]
\* errors call() may raise: message, code and grpcCode (NOCODE: no such property)
NoError == [message |-> "", code |-> NOCODE, grpcCode |-> NOCODE]
NotAvailable == [message |-> "TestService is not available", code |-> NOCODE, grpcCode |-> NOCODE]
NotConnected == [message |-> "TestService client not connected", code |-> NOCODE, grpcCode |-> NOCODE]

\* config.initialReconnectDelayMs and config.maxReconnectDelayMs (defaults),
\* and sampled values of the jitter Math.random() * 1000
InitialReconnectDelayMs == 1000
MaxReconnectDelayMs == 30000
Jitter == {0, 500, 999}

\* ------------------------------------------------------------------ state
VARIABLES
  cm,        \* the ConnectionManager's fields
  nextHandle,\* number of handles the factory has created so far
  wfrCalls,  \* number of client.waitForReady() invocations so far
  pc,        \* position of every application task
  awaiting,  \* the connect attempt whose promise a task awaits (NULL: none)
  result,    \* what a task's ensureConnected() resolved to in the last step ("none": it did not resolve)
  metrics,   \* the MetricsTracker's counters
  cache,     \* the FallbackCache: entries from least to most recently used
  call,      \* the locals of every call() invocation
  config,    \* the client configuration, fixed at construction
  started,   \* number of call() invocations so far
  obs        \* a component used on its own: the last operation and its answer

vars == <<cm, nextHandle, wfrCalls, pc, awaiting, result, metrics, cache, call, config,
          started, obs>>

Procs == Callers \cup Calls

\* ConnectionState enum
ConnectionState == {"DISCONNECTED", "CONNECTING", "CONNECTED", "RECONNECTING"}

\* connectPromise: NULL, a pending attempt (its handle id), or a promise that
\* was rejected before its first await and whose awaiter has not resumed yet
REJECTED == -1

\* ------------------------------------------------- ConnectionManager fields
InitCM(appErrorListener, observed) ==
  [ client            |-> NULL,
    state             |-> "DISCONNECTED",
    reconnectAttempts |-> 0,
    reconnectTimer    |-> FALSE,
    \* number of reconnect callbacks set and neither fired nor cleared, and
    \* baseDelay of the one in the slot (recorded only in an observed run)
    timers            |-> 0,
    baseDelay         |-> 0,
    monitorTimer      |-> NULL,
    connectPromise    |-> NULL,
    isShuttingDown    |-> FALSE,
    lastConnectedAt   |-> FALSE,
    lastErrorAt       |-> FALSE,
    lastError         |-> FALSE,
    \* connect() invocations awaiting their waitForReady callback
    pending           |-> {},
    \* handles created and not closed
    open              |-> {},
    \* pending checkState timers, each named by the handle whose channel its loop reads
    probes            |-> {},
    \* listeners attached to the manager (the facade's forwarders)
    listening         |-> TRUE,
    \* the application has subscribed to the facade's 'error' event
    errorListener     |-> appErrorListener,
    \* events emitted by the manager in the last step, in order; they and the
    \* answers of ensureConnected() are recorded only in an observed run
    observed          |-> observed,
    \* close() has been called while a reconnect timer was armed
    closedArmed       |-> FALSE,
    emitted           |-> <<>>,
    \* the events of the last step that reached the application's handlers
    delivered         |-> <<>>,
    \* pending attempts whose 'connecting' has been followed by the outcome
    \* ('connected' or 'error') of another attempt
    overtaken         |-> {},
    \* 'disconnected' was emitted by handleConnectionLost() and no
    \* 'connecting' since
    lost              |-> FALSE ]

Quiet(c) == [c EXCEPT !.emitted = <<>>, !.delivered = <<>>]

\* EventEmitter.emit(): the listeners attached at that moment are invoked
Emit(c, e) ==
  IF c.observed
  THEN [c EXCEPT !.emitted = Append(@, e),
                 !.delivered = IF c.listening THEN Append(@, e) ELSE @]
  ELSE c

\* the outcome of a connect attempt is emitted while the attempts in
\* c.pending await theirs
EmitOutcome(c, e) ==
  IF c.observed THEN [Emit(c, e) EXCEPT !.overtaken = @ \cup c.pending] ELSE c

\* EventEmitter.emit('error') throws when nobody listens: on the manager after
\* removeAllListeners(), or in the facade's forwarder when the application
\* has no 'error' handler
EmitErrorThrows(c) == ~c.listening \/ ~c.errorListener

isConnected(c) == c.state = "CONNECTED" /\ c.client # NULL

stopReconnectTimer(c) ==
  IF c.reconnectTimer
  THEN [c EXCEPT !.reconnectTimer = FALSE, !.timers = @ - 1, !.baseDelay = 0]
  ELSE c

stopMonitorTimer(c) ==
  IF c.monitorTimer # NULL
  THEN [c EXCEPT !.probes = @ \ {c.monitorTimer}, !.monitorTimer = NULL]
  ELSE c

RECURSIVE Pow2(_)
Pow2(n) == IF n = 0 THEN 1 ELSE 2 * Pow2(n - 1)

scheduleReconnect_NoMax(c) ==
  IF c.isShuttingDown \/ c.reconnectTimer THEN c
  ELSE [c EXCEPT !.baseDelay = IF c.observed
                               THEN InitialReconnectDelayMs * Pow2(c.reconnectAttempts)
                               ELSE 0,
                 !.reconnectAttempts = @ + 1,
                 !.reconnectTimer = TRUE, !.timers = @ + 1]

scheduleReconnect_NoSlotCheck(c) ==
  IF c.isShuttingDown THEN c
  ELSE IF c.reconnectAttempts >= MaxReconnectAttempts THEN c
  ELSE [c EXCEPT !.baseDelay = IF c.observed
                               THEN InitialReconnectDelayMs * Pow2(c.reconnectAttempts)
                               ELSE 0,
                 !.reconnectAttempts = @ + 1,
                 !.reconnectTimer = TRUE, !.timers = @ + 1]

scheduleReconnect(c) ==
  IF c.isShuttingDown \/ c.reconnectTimer THEN c
  ELSE IF c.reconnectAttempts >= MaxReconnectAttempts THEN c
  ELSE [c EXCEPT !.baseDelay = IF c.observed
                               THEN InitialReconnectDelayMs * Pow2(c.reconnectAttempts)
                               ELSE 0,
                 !.reconnectAttempts = @ + 1,
                 !.reconnectTimer = TRUE, !.timers = @ + 1]

\* the delays setTimeout may be given for the timer in the slot
ReconnectDelays(c) ==
  {IF c.baseDelay + j < MaxReconnectDelayMs THEN c.baseDelay + j
   ELSE MaxReconnectDelayMs : j \in Jitter}

handleConnectionLost(c) ==
  IF c.state # "CONNECTED" THEN c
  ELSE LET c1 == Emit([c EXCEPT !.state = "DISCONNECTED", !.lost = c.observed],
                      "disconnected")
           c2 == IF c1.client # NULL
                 THEN [c1 EXCEPT !.open = @ \ {c1.client}, !.client = NULL]
                 ELSE c1
       IN scheduleReconnect(c2)

\* monitorConnection(): the first checkState timer of a loop on the current handle
monitorConnection(c) ==
  IF c.client = NULL THEN c
  ELSE [c EXCEPT !.probes = @ \cup {c.client}, !.monitorTimer = c.client]

handleConnectionSuccess(c) ==
  LET c1 == [c EXCEPT !.state = "CONNECTED", !.lastConnectedAt = TRUE,
                      !.reconnectAttempts = 0, !.lastError = FALSE]
  IN monitorConnection(EmitOutcome(c1, "connected"))

handleConnectionFailure(c) ==
  LET c1 == [c EXCEPT !.lastErrorAt = TRUE, !.lastError = TRUE,
                      !.state = "DISCONNECTED"]
  IN IF EmitErrorThrows(c1) THEN c1
     ELSE scheduleReconnect(EmitOutcome(c1, "error"))

close_KeepListeners(c) ==
  LET c1 == stopMonitorTimer(stopReconnectTimer([c EXCEPT !.isShuttingDown = TRUE]))
      c2 == IF c1.client # NULL
            THEN [c1 EXCEPT !.open = @ \ {c1.client}, !.client = NULL]
            ELSE c1
  IN Emit([c2 EXCEPT !.state = "DISCONNECTED"], "disconnected")

close(c) ==
  LET c1 == stopMonitorTimer(stopReconnectTimer([c EXCEPT !.isShuttingDown = TRUE]))
      c2 == IF c1.client # NULL
            THEN [c1 EXCEPT !.open = @ \ {c1.client}, !.client = NULL]
            ELSE c1
      c3 == Emit([c2 EXCEPT !.state = "DISCONNECTED"], "disconnected")
  IN [c3 EXCEPT !.listening = FALSE]

\* connect() up to its first suspension point.  h is the handle the factory
\* returns (NULL when the factory throws).  The attempt is pending afterwards
\* exactly when h is in the result's pending set.
connect(c, h) ==
  IF c.isShuttingDown THEN c
  ELSE LET c1 == Emit([c EXCEPT !.state = IF c.reconnectAttempts > 0
                                           THEN "RECONNECTING" ELSE "CONNECTING",
                                !.lost = FALSE],
                      "connecting")
       IN IF h = NULL
          THEN handleConnectionFailure(c1)
          ELSE [c1 EXCEPT !.client = h, !.open = @ \cup {h},
                          !.pending = @ \cup {h}]

\* ensureConnected() up to its first suspension point, for a caller that
\* receives handle h from the factory if it has to connect.
\* "true": resolves true at once; "join": awaits the pending connectPromise;
\* "joinrej": awaits a connectPromise that is already rejected;
\* "own": awaits the attempt it started; "ownrej": its own connect() was
\* rejected before suspending, the catch/finally run in a later microtask.
ensureKind_NoDedup(c, h) ==
  IF isConnected(c) THEN "true"
  ELSE IF c.connectPromise = REJECTED THEN "joinrej"
  ELSE IF h \in connect(c, h).pending THEN "own"
  ELSE "ownrej"

ensureKind(c, h) ==
  IF isConnected(c) THEN "true"
  ELSE IF c.connectPromise = REJECTED THEN "joinrej"
  ELSE IF c.connectPromise # NULL THEN "join"
  ELSE IF h \in connect(c, h).pending THEN "own"
  ELSE "ownrej"

ensureConnected(c, h) ==
  LET k == ensureKind(c, h)
  IN IF k \in {"true", "join", "joinrej"} THEN c
     ELSE [connect(c, h) EXCEPT !.connectPromise = IF k = "own" THEN h ELSE REJECTED]

\* the handle the next factory call returns (NULL: the factory throws, which
\* createGrpcClient does whenever the configured proto cannot be loaded)
FactoryResults ==
  IF config.factoryThrows THEN {NULL}
  ELSE IF nextHandle < (IF cm.observed THEN MaxHandles ELSE MaxCallHandles)
       THEN {nextHandle + 1} ELSE {}

\* the factory results an ensureConnected() from c may see: it calls the
\* factory only when it has to start a connect() that is not refused
FactoryInputs(c) ==
  IF ensureKind(c, NULL) = "ownrej" /\ ~c.isShuttingDown
  THEN FactoryResults ELSE {NULL}

\* a connect() started from c with factory result h created a handle
Created(c, h) == h # NULL /\ h \notin c.pending /\ h \in connect(c, h).pending

\* promise continuations are queued: no macrotask may run
MicrotasksPending == \E p \in Procs : pc[p] \in {"ownrej", "ectrue", "ecfalse", "done"}


\* ------------------------------------------------------------ MetricsTracker
\* minLatencyMs before the first sample
INFINITY == -1

\* heap: the snapshot objects getMetrics() has created, in order of creation;
\* cachedSnapshot refers to one of them by its position (NULL: null).
\* lastResetAt, a timestamp, is left out.
InitMetrics ==
  [ totalCalls |-> 0, successfulCalls |-> 0, failedCalls |-> 0,
    totalRetries |-> 0, circuitBreakerTrips |-> 0,
    cacheHits |-> 0, cacheMisses |-> 0,
    avgLatencyMs |-> 0, maxLatencyMs |-> 0, minLatencyMs |-> INFINITY,
    latencySum |-> 0,
    cachedSnapshot |-> NULL, isDirty |-> TRUE, heap |-> <<>> ]

\* Math.round(a / b) for a >= 0 and b > 0
Round(a, b) == (2 * a + b) \div (2 * b)

updateLatency(m, latencyMs) ==
  [m EXCEPT !.latencySum = @ + latencyMs,
            !.maxLatencyMs = IF latencyMs > @ THEN latencyMs ELSE @,
            !.minLatencyMs = IF @ = INFINITY \/ latencyMs < @ THEN latencyMs ELSE @,
            !.avgLatencyMs = Round(m.latencySum + latencyMs, m.successfulCalls)]

recordCallStart(m) == [m EXCEPT !.totalCalls = @ + 1, !.isDirty = TRUE]
recordSuccess(m, latencyMs) ==
  [updateLatency([m EXCEPT !.successfulCalls = @ + 1], latencyMs) EXCEPT !.isDirty = TRUE]
recordFailure(m) == [m EXCEPT !.failedCalls = @ + 1, !.isDirty = TRUE]

recordRetry_NoDirty(m) == [m EXCEPT !.totalRetries = @ + 1]

recordRetry(m) == [m EXCEPT !.totalRetries = @ + 1, !.isDirty = TRUE]
recordCircuitBreakerTrip(m) == [m EXCEPT !.circuitBreakerTrips = @ + 1, !.isDirty = TRUE]
recordCacheHit(m) == [m EXCEPT !.cacheHits = @ + 1, !.isDirty = TRUE]
recordCacheMiss(m) == [m EXCEPT !.cacheMisses = @ + 1, !.isDirty = TRUE]

\* the object getMetrics() builds from the counters
Snapshot(m) ==
  [ totalCalls |-> m.totalCalls, successfulCalls |-> m.successfulCalls,
    failedCalls |-> m.failedCalls, totalRetries |-> m.totalRetries,
    circuitBreakerTrips |-> m.circuitBreakerTrips,
    cacheHits |-> m.cacheHits, cacheMisses |-> m.cacheMisses,
    avgLatencyMs |-> m.avgLatencyMs, maxLatencyMs |-> m.maxLatencyMs,
    minLatencyMs |-> IF m.minLatencyMs = INFINITY THEN 0 ELSE m.minLatencyMs ]

getMetrics_AlwaysRebuild(m) ==
  [m EXCEPT !.heap = Append(@, Snapshot(m)),
            !.cachedSnapshot = Len(m.heap) + 1,
            !.isDirty = FALSE]

\* getMetrics(): the tracker afterwards; it returns its cachedSnapshot
getMetrics(m) ==
  IF ~m.isDirty /\ m.cachedSnapshot # NULL THEN m
  ELSE [m EXCEPT !.heap = Append(@, Snapshot(m)),
                 !.cachedSnapshot = Len(m.heap) + 1,
                 !.isDirty = FALSE]

reset_KeepRetries(m) == [InitMetrics EXCEPT !.heap = m.heap, !.totalRetries = m.totalRetries]

reset(m) == [InitMetrics EXCEPT !.heap = m.heap]

\* getHealth(): the report built from the manager c and the tracker m as
\* its getMetrics() leaves it
getHealth(c, m) ==
  [ state |-> c.state,
    healthy |-> isConnected(c),
    latencyMs |-> m.heap[m.cachedSnapshot].avgLatencyMs,
    lastConnectedAt |-> c.lastConnectedAt,
    lastErrorAt |-> c.lastErrorAt,
    lastError |-> c.lastError,
    reconnectAttempts |-> c.reconnectAttempts,
    metrics |-> m.cachedSnapshot ]

getSuccessRate(m) ==
  IF m.totalCalls = 0 THEN 100
  ELSE Round(m.successfulCalls * 100, m.totalCalls)

\* ------------------------------------------------------------- FallbackCache
RECURSIVE Without(_, _)
Without(q, key) ==
  IF q = <<>> THEN <<>>
  ELSE IF Head(q).k = key THEN Without(Tail(q), key)
  ELSE <<Head(q)>> \o Without(Tail(q), key)

CacheHas(q, key) == \E i \in 1..Len(q) : q[i].k = key
CacheValue(q, key) == (CHOOSE i \in 1..Len(q) : q[i].k = key)
\* what get() returns
CacheRead(q, key) == IF CacheHas(q, key) THEN q[CacheValue(q, key)].v ELSE "null"

\* get(): LRUCache.get with allowStale and noDeleteOnStaleGet returns a stale
\* entry where it is; an entry that is not stale becomes the most recently
\* used one and its age starts again (updateAgeOnGet)
CacheGet_DeleteStale(q, key) ==
  IF CacheHas(q, key)
  THEN IF q[CacheValue(q, key)].stale THEN Without(q, key)
       ELSE Without(q, key) \o <<q[CacheValue(q, key)]>>
  ELSE q

CacheGet(q, key) ==
  IF CacheHas(q, key) /\ ~q[CacheValue(q, key)].stale
  THEN Without(q, key) \o <<q[CacheValue(q, key)]>>
  ELSE q

\* set(): insert or refresh as the most recently used entry with a new age,
\* after the least recently used entry was evicted if a new key finds the
\* cache full
CacheSet(q, key, v) ==
  LET q1 == Without(q, key) \o <<[k |-> key, v |-> v, stale |-> FALSE]>>
  IN IF Len(q1) > config.maxCacheSize THEN Tail(q1) ELSE q1

\* has(): LRUCache.has answers false for a stale entry
CacheHasFresh(q, key) == CacheHas(q, key) /\ ~q[CacheValue(q, key)].stale

\* delete(), clear() and cleanup() (LRUCache.purgeStale)
CacheDelete(q, key) == Without(q, key)
CacheClear(q) == <<>>

RECURSIVE CacheCleanup(_)
CacheCleanup(q) ==
  IF q = <<>> THEN <<>>
  ELSE IF Head(q).stale THEN CacheCleanup(Tail(q))
  ELSE <<Head(q)>> \o CacheCleanup(Tail(q))

\* the TTL of the i-th entry elapses
CacheExpire(q, i) == [q EXCEPT ![i].stale = TRUE]

\* --------------------------------------------------------------- CallExecutor
mapGrpcError_MessageOnly(e) ==
  [message |-> e.message, code |-> e.code, grpcCode |-> e.code]

mapGrpcError(e) ==
  [message |-> IF e.details # "" THEN e.details ELSE e.message,
   code |-> e.code, grpcCode |-> e.code]

isRetryableError(error) ==
  error.code \in {"UNAVAILABLE", "DEADLINE_EXCEEDED", "RESOURCE_EXHAUSTED", "ABORTED"}
isConnectionError(error) == error.code = "UNAVAILABLE"

\* --------------------------------------------------------- ResilientGrpcClient
\* what one call() has recorded and done so far
NoLedger == [inv |-> 0, retries |-> 0, succ |-> 0, fail |-> 0, hits |-> 0, misses |-> 0]

NoCall ==
  [ attempt |-> 0, skipRetry |-> FALSE, useCache |-> FALSE, key |-> "k1",
    lastError |-> NoError, out |-> [kind |-> "none", val |-> "none", err |-> NoError],
    led |-> NoLedger,
    \* the ServiceError of the last failed invocation
    wire |-> NoWireError,
    \* close() had been called when call() was invoked
    afterClose |-> FALSE ]

maxAttempts(cl) == IF cl.skipRetry THEN 1 ELSE RetryCount + 1

\* the state one call() step works on: the manager, the metrics, the cache
\* and the call's own position, awaited attempt and locals
Return(s, kind, v) ==
  [s EXCEPT !.pc = "done",
            !.cl.out = [kind |-> kind,
                        val |-> IF kind = "value" THEN v ELSE "none",
                        err |-> IF kind = "error" THEN v ELSE NoError]]

tryFallbackCache_NoRead(s) ==
  IF ~s.cl.useCache THEN Return(s, "error", s.cl.lastError)
  ELSE Return([s EXCEPT !.m = recordCacheMiss(@), !.cl.led.misses = @ + 1],
              "error", s.cl.lastError)

tryFallbackCache(s) ==
  IF ~s.cl.useCache THEN Return(s, "error", s.cl.lastError)
  ELSE IF CacheHas(s.cache, s.cl.key)
       THEN Return([s EXCEPT !.cache = CacheGet(@, s.cl.key),
                             !.m = recordCacheHit(@), !.cl.led.hits = @ + 1],
                   "value", s.cache[CacheValue(s.cache, s.cl.key)].v)
       ELSE Return([s EXCEPT !.m = recordCacheMiss(@), !.cl.led.misses = @ + 1],
                   "error", s.cl.lastError)

\* call(): after the loop is left with a failure
callFailed(s) ==
  tryFallbackCache([s EXCEPT !.m = recordFailure(@), !.cl.led.fail = @ + 1])

handleRetryAttempt_OneMore(s, error) ==
  LET s1 == IF s.cl.attempt > 0
            THEN [s EXCEPT !.m = recordRetry(@), !.cl.led.retries = @ + 1]
            ELSE s
      s2 == [s1 EXCEPT !.cl.lastError = error]
  IN IF ~isRetryableError(error) \/ s2.cl.attempt >= maxAttempts(s2.cl)
     THEN callFailed(s2)
     ELSE [(IF isConnectionError(error)
            THEN [s2 EXCEPT !.cm = handleConnectionLost(@)]
            ELSE s2) EXCEPT !.pc = "sleeping"]

\* call(): the catch block for an attempt that threw error, with handleRetryAttempt
handleRetryAttempt(s, error) ==
  LET s1 == IF s.cl.attempt > 0
            THEN [s EXCEPT !.m = recordRetry(@), !.cl.led.retries = @ + 1]
            ELSE s
      s2 == [s1 EXCEPT !.cl.lastError = error]
  IN IF ~isRetryableError(error) \/ s2.cl.attempt >= maxAttempts(s2.cl) - 1
     THEN callFailed(s2)
     ELSE [(IF isConnectionError(error)
            THEN [s2 EXCEPT !.cm = handleConnectionLost(@)]
            ELSE s2) EXCEPT !.pc = "sleeping"]

handleServiceUnavailable_Retryable(s) ==
  IF s.cl.useCache /\ CacheHas(s.cache, s.cl.key)
  THEN Return([s EXCEPT !.cache = CacheGet(@, s.cl.key),
                        !.m = recordCacheHit(@), !.cl.led.hits = @ + 1],
              "value", s.cache[CacheValue(s.cache, s.cl.key)].v)
  ELSE handleRetryAttempt(
         IF s.cl.useCache
         THEN [s EXCEPT !.m = recordCacheMiss(@), !.cl.led.misses = @ + 1]
         ELSE s, [NotAvailable EXCEPT !.code = "UNAVAILABLE"])

handleServiceUnavailable(s) ==
  IF s.cl.useCache /\ CacheHas(s.cache, s.cl.key)
  THEN Return([s EXCEPT !.cache = CacheGet(@, s.cl.key),
                        !.m = recordCacheHit(@), !.cl.led.hits = @ + 1],
              "value", s.cache[CacheValue(s.cache, s.cl.key)].v)
  ELSE handleRetryAttempt(
         IF s.cl.useCache
         THEN [s EXCEPT !.m = recordCacheMiss(@), !.cl.led.misses = @ + 1]
         ELSE s, NotAvailable)

\* executeCallAttempt() from its start to the await of ensureConnected()
executeCallAttempt(s, h) ==
  LET k == ensureKind(s.cm, h)
  IN [s EXCEPT !.cm = ensureConnected(@, h),
               !.pc = CASE k = "true" -> "ectrue"
                        [] k \in {"own", "join"} -> "wait"
                        [] k = "joinrej" -> "ecfalse"
                        [] OTHER -> "ownrej",
               !.aw = CASE k = "own" -> h
                        [] k = "join" -> s.cm.connectPromise
                        [] OTHER -> NULL]

\* executeCallAttempt() after ensureConnected() resolved
afterEnsureConnected(s) ==
  IF s.pc = "ecfalse" THEN handleServiceUnavailable(s)
  ELSE IF s.cm.client = NULL THEN handleRetryAttempt(s, NotConnected)
  ELSE [s EXCEPT !.pc = "invoking", !.cl.led.inv = @ + 1]

afterInvoke_AlwaysCache(s, err, res) ==
  IF err = NoWireError
  THEN Return([s EXCEPT !.m = recordSuccess(@, 0), !.cl.led.succ = @ + 1,
                        !.cache = CacheSet(@, s.cl.key, res)],
              "value", res)
  ELSE handleRetryAttempt([s EXCEPT !.cl.wire = err], mapGrpcError(err))

\* the transport callback of the invocation, with its error and response
\* arguments; the clock is not followed on the call path, every call is
\* timed as taking 0 ms
afterInvoke(s, err, res) ==
  IF err = NoWireError
  THEN Return([s EXCEPT !.m = recordSuccess(@, 0), !.cl.led.succ = @ + 1,
                        !.cache = IF s.cl.useCache THEN CacheSet(@, s.cl.key, res) ELSE @],
              "value", res)
  ELSE handleRetryAttempt([s EXCEPT !.cl.wire = err], mapGrpcError(err))

NoResult == [p \in Procs |-> "none"]

\* nothing has been applied to a component on its own.  used: the keys in
\* the cache in the order of their last use (a set() or a get() of the key);
\* live: the value last set under a key and neither deleted nor cleared
\* since; expired: the keys whose TTL has elapsed since that set()
NoObs == [op |-> "none", arg |-> "none", ret |-> "none",
          used |-> <<>>, live |-> [k \in CacheKeys |-> "none"], expired |-> {},
          \* the operation is a getMetrics() that follows a getMetrics()
          again |-> FALSE,
          \* operations so far on a tracker used on its own, and the latency
          \* given to the last recordSuccess() since construction or reset()
          count |-> 0, lastLatency |-> 0]

\* -------------------------------------------------------------------- Init
Constructed(observed) ==
  /\ \E l \in BOOLEAN : cm = InitCM(l, observed)
  /\ \E e \in BOOLEAN, f \in BOOLEAN :
       config = [enableFallbackCache |-> e, factoryThrows |-> f,
                 maxCacheSize |-> MaxCacheSize]
  /\ nextHandle = 0
  /\ wfrCalls = 0
  /\ pc = [p \in Procs |-> "idle"]
  /\ awaiting = [p \in Procs |-> NULL]
  /\ result = NoResult
  /\ metrics = InitMetrics
  /\ cache = <<>>
  /\ call = [k \in Calls |-> NoCall]
  /\ started = 0
  /\ obs = NoObs

Init == Constructed(TRUE)

\* the tasks are interchangeable: the idle task with the least index acts
Least(p, S) == \A q \in S : pc[q] = "idle" => p <= q

\* what a connect() started from c with factory result h does to the counters
Counted(c, h) ==
  /\ nextHandle' = IF Created(c, h) THEN h ELSE nextHandle
  /\ wfrCalls' = IF Created(c, h) THEN wfrCalls + 1 ELSE wfrCalls

\* ------------------------------------------- actions: the connection manager
\* an application task calls ensureConnected()
EnsureConnected(p) ==
  /\ pc[p] = "idle"
  /\ Least(p, Callers)
  /\ \E h \in FactoryInputs(cm) :
       LET c0 == Quiet(cm)
           k  == ensureKind(c0, h)
       IN /\ cm' = ensureConnected(c0, h)
          /\ IF k \in {"own", "ownrej"} THEN Counted(c0, h)
                                        ELSE UNCHANGED <<nextHandle, wfrCalls>>
          /\ pc' = [pc EXCEPT ![p] = CASE k \in {"own", "join"} -> "wait"
                                       [] k = "ownrej" -> "ownrej"
                                       [] OTHER -> "idle"]
          /\ awaiting' = [awaiting EXCEPT ![p] = CASE k = "own" -> h
                                                   [] k = "join" -> c0.connectPromise
                                                   [] OTHER -> NULL]
          /\ result' = [NoResult EXCEPT ![p] = CASE k = "true" -> "true"
                                                 [] k = "joinrej" -> "false"
                                                 [] OTHER -> "none"]
  /\ UNCHANGED <<metrics, cache, call, config, obs, started>>

\* the catch/finally of an ensureConnected() whose connect() was rejected at once
EnsureRejected(p) ==
  /\ pc[p] = "ownrej"
  /\ cm' = [Quiet(cm) EXCEPT !.connectPromise = NULL]
  /\ pc' = [pc EXCEPT ![p] = IF p \in Calls THEN "ecfalse" ELSE "idle"]
  /\ result' = IF cm.observed THEN [NoResult EXCEPT ![p] = "false"] ELSE NoResult
  /\ UNCHANGED <<nextHandle, wfrCalls, awaiting, metrics, cache, call, config, obs, started>>

\* the waitForReady callback of attempt a: connect() resumes, its promise
\* settles and every ensureConnected() awaiting it resumes
Settle(c, a, ok) ==
  LET c1 == [c EXCEPT !.pending = @ \ {a}, !.overtaken = @ \ {a}]
      c2 == IF ok THEN handleConnectionSuccess(c1) ELSE handleConnectionFailure(c1)
  IN IF c2.connectPromise = a THEN [c2 EXCEPT !.connectPromise = NULL] ELSE c2

\* what an ensureConnected() awaiting the attempt resolves to
Resolved(c, ok) == IF ok /\ c.state = "CONNECTED" THEN "true" ELSE "false"

WaitForReadyCallback_ResolveOnly(a, ok) ==
  /\ a \in cm.pending
  /\ ~MicrotasksPending
  /\ IF ok
     THEN /\ cm' = Settle(Quiet(cm), a, ok)
          /\ result' = [p \in Procs |-> IF awaiting[p] = a /\ cm.observed
                                         THEN Resolved(cm', ok) ELSE "none"]
          /\ pc' = [p \in Procs |->
                      IF awaiting[p] # a THEN pc[p]
                      ELSE IF p \in Callers THEN "idle"
                      ELSE IF Resolved(cm', ok) = "true" THEN "ectrue" ELSE "ecfalse"]
          /\ awaiting' = [p \in Procs |-> IF awaiting[p] = a THEN NULL ELSE awaiting[p]]
     ELSE /\ cm' = [Quiet(cm) EXCEPT !.pending = @ \ {a}]
          /\ result' = NoResult
          /\ UNCHANGED <<pc, awaiting>>
  /\ UNCHANGED <<nextHandle, wfrCalls, metrics, cache, call, config, obs, started>>

WaitForReadyCallback(a, ok) ==
  /\ a \in cm.pending
  /\ ~MicrotasksPending
  /\ cm' = Settle(Quiet(cm), a, ok)
  /\ result' = [p \in Procs |-> IF awaiting[p] = a /\ cm.observed
                                 THEN Resolved(cm', ok) ELSE "none"]
  /\ pc' = [p \in Procs |->
              IF awaiting[p] # a THEN pc[p]
              ELSE IF p \in Callers THEN "idle"
              ELSE IF Resolved(cm', ok) = "true" THEN "ectrue" ELSE "ecfalse"]
  /\ awaiting' = [p \in Procs |-> IF awaiting[p] = a THEN NULL ELSE awaiting[p]]
  /\ UNCHANGED <<nextHandle, wfrCalls, metrics, cache, call, config, obs, started>>

WaitForReadyDone(a) == \E ok \in BOOLEAN : WaitForReadyCallback(a, ok)

\* the reconnect timer fires: the slot is cleared and connect() runs
ReconnectTimerFires ==
  /\ cm.timers > 0
  /\ ~MicrotasksPending
  /\ \E h \in FactoryResults :
       LET c0 == [Quiet(cm) EXCEPT !.reconnectTimer = FALSE, !.timers = @ - 1,
                                   !.baseDelay = 0]
       IN cm' = connect(c0, h) /\ Counted(c0, h)
  /\ result' = NoResult
  /\ UNCHANGED <<pc, awaiting, metrics, cache, call, config, obs, started>>

\* connectivity states of a channel, as the monitor distinguishes them
ProbeResults == {"READY", "FAILED", "OTHER"}

\* a checkState timer of a monitor loop fires
checkState(c, pr, st) ==
  LET c1 == [c EXCEPT !.probes = @ \ {pr}]
  IN IF c1.isShuttingDown \/ c1.client = NULL
     THEN [c1 EXCEPT !.monitorTimer = NULL]
     ELSE IF st = "FAILED"
          THEN handleConnectionLost([c1 EXCEPT !.monitorTimer = NULL])
          ELSE [c1 EXCEPT !.probes = @ \cup {pr}, !.monitorTimer = pr]

ProbeFires(pr, st) ==
  /\ pr \in cm.probes
  /\ ~MicrotasksPending
  /\ cm' = checkState(Quiet(cm), pr, st)
  /\ result' = NoResult
  /\ UNCHANGED <<nextHandle, wfrCalls, pc, awaiting, metrics, cache, call, config, obs, started>>

MonitorProbe(pr) == \E st \in ProbeResults : ProbeFires(pr, st)

\* the application calls close() on the client
Close ==
  /\ cm' = [close(Quiet(cm)) EXCEPT !.errorListener = FALSE,
                                    !.closedArmed = @ \/ (cm.observed /\ cm.reconnectTimer)]
  /\ cache' = <<>>
  /\ result' = NoResult
  /\ UNCHANGED <<nextHandle, wfrCalls, pc, awaiting, metrics, call, config, obs, started>>

\* handleConnectionLost() is called from outside the manager
ConnectionLost ==
  /\ cm' = handleConnectionLost(Quiet(cm))
  /\ result' = NoResult
  /\ UNCHANGED <<nextHandle, wfrCalls, pc, awaiting, metrics, cache, call, config, obs, started>>

Next ==
  \/ \E p \in Callers : EnsureConnected(p)
  \/ \E p \in Callers : EnsureRejected(p)
  \/ \E a \in Handles : WaitForReadyDone(a)
  \/ ReconnectTimerFires
  \/ \E pr \in Handles : MonitorProbe(pr)
  \/ Close
  \/ ConnectionLost

Spec == Init /\ [][Next]_vars

\* ------------------------------------------------- actions: call() and facade
\* the state call k works on, and its effect
Local(k) == [cm |-> Quiet(cm), m |-> metrics, cache |-> cache,
             pc |-> pc[k], aw |-> awaiting[k], cl |-> call[k]]

Effect(k, s) ==
  /\ cm' = s.cm
  /\ metrics' = s.m
  /\ cache' = s.cache
  /\ pc' = [pc EXCEPT ![k] = s.pc]
  /\ awaiting' = [awaiting EXCEPT ![k] = s.aw]
  /\ call' = [call EXCEPT ![k] = s.cl]
  /\ result' = NoResult
  /\ UNCHANGED <<config, obs>>

\* call(): options, recordCallStart and the first executeCallAttempt()
CallStart(k) ==
  /\ pc[k] = "idle"
  /\ Least(k, Calls)
  /\ started < MaxCalls
  /\ started' = started + 1
  /\ \E h \in FactoryInputs(cm), sr \in BOOLEAN, sc \in BOOLEAN, key \in Keys :
       LET s0 == [Local(k) EXCEPT !.cl.skipRetry = sr,
                                  !.cl.useCache = config.enableFallbackCache /\ ~sc,
                                  !.cl.key = key,
                                  !.cl.afterClose = cm.isShuttingDown,
                                  !.m = recordCallStart(@)]
       IN /\ Effect(k, executeCallAttempt(s0, h))
          /\ IF ensureKind(s0.cm, h) \in {"own", "ownrej"} THEN Counted(s0.cm, h)
             ELSE UNCHANGED <<nextHandle, wfrCalls>>

\* executeCallAttempt() resumes with the answer of ensureConnected()
CallResume(k) ==
  /\ pc[k] \in {"ectrue", "ecfalse"}
  /\ Effect(k, afterEnsureConnected(Local(k)))
  /\ UNCHANGED <<nextHandle, wfrCalls, started>>

\* the transport calls back
InvokeDone(k) ==
  /\ pc[k] = "invoking"
  /\ ~MicrotasksPending
  /\ \/ \E res \in Responses : Effect(k, afterInvoke(Local(k), NoWireError, res))
     \/ \E err \in WireErrors : Effect(k, afterInvoke(Local(k), err, "none"))
  /\ UNCHANGED <<nextHandle, wfrCalls, started>>

\* the backoff sleep ends: the loop starts the next attempt
SleepDone(k) ==
  /\ pc[k] = "sleeping"
  /\ ~MicrotasksPending
  /\ \E h \in FactoryInputs(cm) :
       LET s0 == [Local(k) EXCEPT !.cl.attempt = @ + 1]
       IN /\ Effect(k, executeCallAttempt(s0, h))
          /\ IF ensureKind(s0.cm, h) \in {"own", "ownrej"} THEN Counted(s0.cm, h)
             ELSE UNCHANGED <<nextHandle, wfrCalls>>
  /\ UNCHANGED started

\* call() has returned or thrown: its frame is dropped
CallReturn(k) ==
  /\ pc[k] = "done"
  /\ pc' = [pc EXCEPT ![k] = "idle"]
  /\ call' = [call EXCEPT ![k] = NoCall]
  /\ cm' = Quiet(cm)
  /\ result' = NoResult
  /\ UNCHANGED <<nextHandle, wfrCalls, awaiting, metrics, cache, config, obs, started>>

ResetMetrics ==
  /\ metrics' = reset(metrics)
  /\ cm' = Quiet(cm)
  /\ result' = NoResult
  /\ UNCHANGED <<nextHandle, wfrCalls, pc, awaiting, cache, call, config, obs, started>>

ClearCache ==
  /\ cache' = <<>>
  /\ cm' = Quiet(cm)
  /\ result' = NoResult
  /\ UNCHANGED <<nextHandle, wfrCalls, pc, awaiting, metrics, call, config, obs, started>>

NextCall ==
  \/ \E k \in Calls : CallStart(k)
  \/ \E k \in Calls : EnsureRejected(k)
  \/ \E k \in Calls : CallResume(k)
  \/ \E k \in Calls : InvokeDone(k)
  \/ \E k \in Calls : SleepDone(k)
  \/ \E k \in Calls : CallReturn(k)
  \/ \E a \in Handles : WaitForReadyDone(a)
  \/ ReconnectTimerFires
  \/ \E pr \in Handles : MonitorProbe(pr)
  \/ Close
  \/ ResetMetrics
  \/ ClearCache

InitCall == Constructed(FALSE)

SpecCall == InitCall /\ [][NextCall]_vars

Range(q) == {q[i] : i \in 1..Len(q)}

\* ------------------------------------------------ a FallbackCache on its own
\* The cache under any sequence of its operations, with time passing
\* between them.
clientVars == <<cm, nextHandle, wfrCalls, pc, awaiting, result, call, started>>

Unused ==
  /\ cm = InitCM(FALSE, FALSE)
  /\ nextHandle = 0
  /\ wfrCalls = 0
  /\ pc = [p \in Procs |-> "idle"]
  /\ awaiting = [p \in Procs |-> NULL]
  /\ result = NoResult
  /\ call = [k \in Calls |-> NoCall]
  /\ started = 0

InitCache ==
  /\ Unused
  /\ \E n \in 1..MaxLruSize :
       config = [enableFallbackCache |-> TRUE, factoryThrows |-> FALSE,
                 maxCacheSize |-> n]
  /\ metrics = InitMetrics
  /\ cache = <<>>
  /\ obs = NoObs

\* the order of last use after key was used, over the keys that q holds
Touch(u, key) == SelectSeq(u, LAMBDA k : k # key) \o <<key>>
Held(u, q) == SelectSeq(u, LAMBDA k : CacheHas(q, k))

CacheSetOp(key, v) ==
  /\ cache' = CacheSet(cache, key, v)
  /\ obs' = [obs EXCEPT !.op = "set", !.arg = key, !.ret = "none",
                        !.used = Held(Touch(@, key), cache'),
                        !.live[key] = v,
                        !.expired = @ \ {key}]
  /\ UNCHANGED <<clientVars, metrics, config>>

CacheGetOp(key) ==
  /\ cache' = CacheGet(cache, key)
  /\ obs' = [obs EXCEPT !.op = "get", !.arg = key, !.ret = CacheRead(cache, key),
                        !.used = IF CacheHas(cache, key)
                                 THEN Held(Touch(@, key), cache')
                                 ELSE Held(@, cache')]
  /\ UNCHANGED <<clientVars, metrics, config>>

CacheHasOp(key) ==
  /\ obs' = [obs EXCEPT !.op = "has", !.arg = key, !.ret = CacheHasFresh(cache, key)]
  /\ UNCHANGED <<clientVars, metrics, config, cache>>

CacheDeleteOp(key) ==
  /\ cache' = CacheDelete(cache, key)
  /\ obs' = [obs EXCEPT !.op = "delete", !.arg = key, !.ret = CacheHas(cache, key),
                        !.used = Held(@, cache'),
                        !.live[key] = "none"]
  /\ UNCHANGED <<clientVars, metrics, config>>

CacheClearOp ==
  /\ cache' = CacheClear(cache)
  /\ obs' = [obs EXCEPT !.op = "clear", !.arg = "none", !.ret = "none",
                        !.used = <<>>,
                        !.live = [k \in CacheKeys |-> "none"]]
  /\ UNCHANGED <<clientVars, metrics, config>>

CacheCleanupOp ==
  /\ cache' = CacheCleanup(cache)
  /\ obs' = [obs EXCEPT !.op = "cleanup", !.arg = "none",
                        !.ret = Len(cache) - Len(cache'),
                        !.used = Held(@, cache')]
  /\ UNCHANGED <<clientVars, metrics, config>>

\* time passes: the TTL of an entry elapses
TtlElapses(i) ==
  /\ i \in 1..Len(cache)
  /\ ~cache[i].stale
  /\ cache' = CacheExpire(cache, i)
  /\ obs' = [obs EXCEPT !.op = "time", !.arg = cache[i].k, !.ret = "none",
                        !.expired = @ \cup {cache[i].k}]
  /\ UNCHANGED <<clientVars, metrics, config>>

NextCache ==
  \/ \E key \in CacheKeys, v \in Responses : CacheSetOp(key, v)
  \/ \E key \in CacheKeys : CacheGetOp(key)
  \/ \E key \in CacheKeys : CacheHasOp(key)
  \/ \E key \in CacheKeys : CacheDeleteOp(key)
  \/ CacheClearOp
  \/ CacheCleanupOp
  \/ \E i \in 1..MaxLruSize : TtlElapses(i)

SpecCache == InitCache /\ [][NextCache]_vars

\* ----------------------------------------------- a MetricsTracker on its own
\* The tracker under any sequence of its operations; the client reaches its
\* counters through these operations only.
MaxOps == 5
Latencies == {1, 4}

InitTracker ==
  /\ Unused
  /\ config = [enableFallbackCache |-> TRUE, factoryThrows |-> FALSE,
               maxCacheSize |-> MaxCacheSize]
  /\ metrics = InitMetrics
  /\ cache = <<>>
  /\ obs = NoObs

\* what is noted of an operation that returns nothing
Did(op) == [obs EXCEPT !.op = op, !.ret = "none", !.again = FALSE, !.count = @ + 1]

RecordCallStart ==
  /\ obs.count < MaxOps
  /\ metrics' = recordCallStart(metrics)
  /\ obs' = Did("recordCallStart")
  /\ UNCHANGED <<clientVars, cache, config>>

RecordSuccess(latencyMs) ==
  /\ obs.count < MaxOps
  /\ metrics' = recordSuccess(metrics, latencyMs)
  /\ obs' = [Did("recordSuccess") EXCEPT !.lastLatency = latencyMs]
  /\ UNCHANGED <<clientVars, cache, config>>

RecordFailure ==
  /\ obs.count < MaxOps
  /\ metrics' = recordFailure(metrics)
  /\ obs' = Did("recordFailure")
  /\ UNCHANGED <<clientVars, cache, config>>

RecordRetry ==
  /\ obs.count < MaxOps
  /\ metrics' = recordRetry(metrics)
  /\ obs' = Did("recordRetry")
  /\ UNCHANGED <<clientVars, cache, config>>

RecordCircuitBreakerTrip ==
  /\ obs.count < MaxOps
  /\ metrics' = recordCircuitBreakerTrip(metrics)
  /\ obs' = Did("recordCircuitBreakerTrip")
  /\ UNCHANGED <<clientVars, cache, config>>

RecordCacheHit ==
  /\ obs.count < MaxOps
  /\ metrics' = recordCacheHit(metrics)
  /\ obs' = Did("recordCacheHit")
  /\ UNCHANGED <<clientVars, cache, config>>

RecordCacheMiss ==
  /\ obs.count < MaxOps
  /\ metrics' = recordCacheMiss(metrics)
  /\ obs' = Did("recordCacheMiss")
  /\ UNCHANGED <<clientVars, cache, config>>

TrackerReset ==
  /\ obs.count < MaxOps
  /\ metrics' = reset(metrics)
  /\ obs' = [Did("reset") EXCEPT !.lastLatency = 0]
  /\ UNCHANGED <<clientVars, cache, config>>

GetMetrics ==
  /\ obs.count < MaxOps
  /\ metrics' = getMetrics(metrics)
  /\ obs' = [obs EXCEPT !.op = "getMetrics", !.ret = metrics'.cachedSnapshot,
                        !.again = (obs.op = "getMetrics"), !.count = @ + 1]
  /\ UNCHANGED <<clientVars, cache, config>>

\* getHealth() of the facade, which reads the tracker through getMetrics()
GetHealth ==
  /\ obs.count < MaxOps
  /\ metrics' = getMetrics(metrics)
  /\ obs' = [obs EXCEPT !.op = "getHealth", !.ret = getHealth(cm, metrics'),
                        !.again = FALSE, !.count = @ + 1]
  /\ UNCHANGED <<clientVars, cache, config>>

NextTracker ==
  \/ RecordCallStart
  \/ \E latencyMs \in Latencies : RecordSuccess(latencyMs)
  \/ RecordFailure
  \/ RecordRetry
  \/ RecordCircuitBreakerTrip
  \/ RecordCacheHit
  \/ RecordCacheMiss
  \/ TrackerReset
  \/ GetMetrics
  \/ GetHealth

SpecTracker == InitTracker /\ [][NextTracker]_vars

\* ------------------------------------------------------ cache-key derivation
\* Strings are sequences of characters; charCodeAt gives the UTF-16 code unit.
Letters == <<"a", "b", "c", "d", "e", "f", "g", "h", "i", "j", "k", "l", "m",
             "n", "o", "p", "q", "r", "s", "t", "u", "v", "w", "x", "y", "z">>
Digits == <<"0", "1", "2", "3", "4", "5", "6", "7", "8", "9">>

charCodeAt(ch) ==
  CASE \E i \in 1..26 : Letters[i] = ch -> 96 + (CHOOSE i \in 1..26 : Letters[i] = ch)
    [] \E i \in 1..10 : Digits[i] = ch -> 47 + (CHOOSE i \in 1..10 : Digits[i] = ch)
    [] ch = "M" -> 77
    [] ch = "\"" -> 34
    [] ch = "&" -> 38
    [] ch = "," -> 44
    [] ch = ":" -> 58
    [] ch = "=" -> 61
    [] ch = "{" -> 123
    [] ch = "}" -> 125

\* bitwise exclusive or of two 16-bit numbers
RECURSIVE Xor(_, _)
Xor(a, b) ==
  IF a = 0 THEN b
  ELSE IF b = 0 THEN a
  ELSE 2 * Xor(a \div 2, b \div 2) + (((a % 2) + (b % 2)) % 2)

\* a 32-bit integer is kept as its two 16-bit halves <<high, low>>;
\* one round of the loop: hash = ((hash << 5) + hash) ^ charCode, in 32 bits
HashStep(h, c) ==
  LET low == 33 * h[2]
  IN <<(33 * h[1] + low \div 65536) % 65536, Xor(low % 65536, c)>>

\* the loop from character i on, entered with hash h (a pair of naturals)
RECURSIVE HashFrom(_, _, _)
HashFrom(h, str, i) ==
  IF i > Len(str) THEN h
  ELSE LET next == HashStep(h, charCodeAt(str[i]))
       IN IF next \in Seq(Nat) THEN HashFrom(next, str, i + 1) ELSE next

\* Number.prototype.toString(16) of a number below 65536, and the same
\* padded to four digits
RECURSIVE Hex(_)
Hex(n) ==
  IF n < 16 THEN <<(Digits \o SubSeq(Letters, 1, 6))[n + 1]>>
  ELSE Hex(n \div 16) \o <<(Digits \o SubSeq(Letters, 1, 6))[(n % 16) + 1]>>

Hex4(n) == SubSeq(<<"0", "0", "0">>, 1, 4 - Len(Hex(n))) \o Hex(n)

fastHash(str) ==
  LET h == HashFrom(<<0, 5381>>, str, 1)
  IN IF h[1] = 0 THEN Hex(h[2]) ELSE Hex(h[1]) \o Hex4(h[2])

\* A JavaScript value: its type, String(value) for a primitive, and the
\* fields [key, val] of an object in insertion order.
Prim(t, str) == [t |-> t, s |-> str, f |-> <<>>]
Obj(fields) == [t |-> "object", s |-> <<>>, f |-> fields]

\* string comparison by code units, as Array.prototype.sort() compares
RECURSIVE StrLess(_, _)
StrLess(a, b) ==
  IF b = <<>> THEN FALSE
  ELSE IF a = <<>> THEN TRUE
  ELSE IF charCodeAt(Head(a)) # charCodeAt(Head(b))
       THEN charCodeAt(Head(a)) < charCodeAt(Head(b))
       ELSE StrLess(Tail(a), Tail(b))

\* Object.keys(obj).sort(), carried with the fields
RECURSIVE SortedFields(_)
SortedFields(fs) ==
  IF fs = <<>> THEN <<>>
  ELSE LET m == CHOOSE i \in 1..Len(fs) :
                  \A j \in 1..Len(fs) : j = i \/ StrLess(fs[i].key, fs[j].key)
       IN <<fs[m]>> \o SortedFields(SubSeq(fs, 1, m - 1) \o SubSeq(fs, m + 1, Len(fs)))

RECURSIVE Join(_, _)
Join(parts, sep) ==
  IF parts = <<>> THEN <<>>
  ELSE IF Len(parts) = 1 THEN parts[1]
  ELSE parts[1] \o sep \o Join(Tail(parts), sep)

\* JSON.stringify: the fields in insertion order, those holding undefined left out
RECURSIVE JsonStringify(_)
JsonStringify(v) ==
  CASE v.t = "string" -> <<"\"">> \o v.s \o <<"\"">>
    [] v.t = "object" ->
         LET fs == SelectSeq(v.f, LAMBDA fd : fd.val.t # "undefined")
         IN <<"{">> \o Join([i \in 1..Len(fs) |->
                               <<"\"">> \o fs[i].key \o <<"\"", ":">>
                                 \o JsonStringify(fs[i].val)], <<",">>)
                   \o <<"}">>
    [] OTHER -> v.s

MaxSimpleKeys == 10

isSimple(fs) ==
  \A i \in 1..Len(fs) :
    fs[i].val.t \in {"null", "undefined", "string", "number", "boolean"}

generateCacheKey(methodName, request) ==
  CASE request.t \in {"null", "undefined"} -> methodName \o <<":", "n", "u", "l", "l">>
    [] request.t \in {"string", "number", "boolean"} -> methodName \o <<":">> \o request.s
    [] request.t = "object" ->
         LET keys == SortedFields(request.f)
         IN IF Len(keys) <= MaxSimpleKeys /\ isSimple(keys)
            THEN methodName \o <<":">>
                   \o Join([i \in 1..Len(keys) |->
                              keys[i].key \o <<"=">> \o keys[i].val.s], <<"&">>)
            ELSE methodName \o <<":">> \o fastHash(JsonStringify(request))
    [] OTHER -> methodName \o <<":">> \o request.s

\* generateCacheKey on its own: a request whose fields are reordered
MaxReorder == 2
Methods == {<<"M">>}
FieldKeys == <<<<"a">>, <<"a", "b">>, <<"b">>>>
FieldValues ==
  { Prim("number", <<"1">>), Prim("number", <<"2">>), Prim("string", <<"1">>),
    Prim("null", <<"n", "u", "l", "l">>),
    Obj(<<[key |-> <<"x">>, val |-> Prim("number", <<"1">>)]>>) }

\* objects of up to three fields, one object of MaxSimpleKeys + 1 number
\* fields, and requests that are no objects
Requests ==
  UNION { { Obj([i \in 1..n |-> [key |-> FieldKeys[i], val |-> vs[i]]]) :
              vs \in [1..n -> FieldValues] } : n \in 1..3 }
    \cup { Obj([i \in 1..(MaxSimpleKeys + 1) |->
                  [key |-> <<Letters[i]>>, val |-> Prim("number", <<"1">>)]]) }
    \cup { Prim("null", <<"n", "u", "l", "l">>), Prim("string", <<"a", "b">>),
           Prim("number", <<"1", "2">>) }

InitKey ==
  /\ Unused
  /\ config = [enableFallbackCache |-> TRUE, factoryThrows |-> FALSE,
               maxCacheSize |-> MaxCacheSize]
  /\ metrics = InitMetrics
  /\ cache = <<>>
  /\ \E m \in Methods, r \in Requests :
       obs = [NoObs EXCEPT !.op = "generateCacheKey",
                           !.arg = [methodName |-> m, request |-> r],
                           !.ret = generateCacheKey(m, r)]

\* the same fields inserted in another order
Swapped(fs, i) == [fs EXCEPT ![i] = fs[i + 1], ![i + 1] = fs[i]]

Reorder(i) ==
  /\ obs.arg.request.t = "object"
  /\ i < Len(obs.arg.request.f)
  /\ LET r == Obj(Swapped(obs.arg.request.f, i))
     IN obs' = [obs EXCEPT !.arg.request = r,
                           !.ret = generateCacheKey(obs.arg.methodName, r)]
  /\ UNCHANGED <<clientVars, metrics, cache, config>>

NextKey == \E i \in 1..MaxReorder : Reorder(i)

SpecKey == InitKey /\ [][NextKey]_vars

\* ------------------------------------------------- reconnection on its own
\* The connection manager left to itself after the application's first
\* ensureConnected(): the factory works, only the first handle's waitForReady
\* may fail and only the first handle's channel may leave READY or be
\* reported lost; timers and transport callbacks are scheduled fairly.
LiveEnsureConnected(p) ==
  /\ ~cm.lastConnectedAt /\ ~cm.lastErrorAt
  /\ EnsureConnected(p)

LiveWaitForReady(a) ==
  \E ok \in BOOLEAN : (ok \/ a = 1) /\ WaitForReadyCallback(a, ok)

LiveProbe(pr) ==
  \E st \in ProbeResults : (st # "FAILED" \/ pr = 1) /\ ProbeFires(pr, st)

LiveConnectionLost ==
  /\ cm.client = 1
  /\ ConnectionLost

NextLive ==
  \/ \E p \in Callers : LiveEnsureConnected(p)
  \/ \E a \in Handles : LiveWaitForReady(a)
  \/ ReconnectTimerFires
  \/ \E pr \in Handles : LiveProbe(pr)
  \/ LiveConnectionLost

InitLive == Constructed(TRUE) /\ ~config.factoryThrows

SpecLive ==
  /\ InitLive
  /\ [][NextLive]_vars
  /\ WF_vars(ReconnectTimerFires)
  /\ \A a \in Handles : WF_vars(LiveWaitForReady(a))
  /\ \A pr \in Handles : WF_vars(LiveProbe(pr))

\* ----------------------------------------------- calls under fair scheduling
\* call() invocations with the event loop running every queued continuation,
\* every backoff timer firing and every waitForReady and invocation calling
\* back; close(), connection losses and the reconnect timer may come at any
\* moment.  The factory of a real client never runs out of handles: here a
\* call starts, and the reconnect timer fires, only while the handles left
\* cover the attempts that the calls in progress may still start.
MaxLiveCalls == 1

\* attempts the calls in progress may still start after their current one
Reserved ==
  Cardinality({ki \in Calls \X (1..RetryCount) :
                 /\ pc[ki[1]] \notin {"idle", "done"}
                 /\ ki[2] <= maxAttempts(call[ki[1]]) - 1 - call[ki[1]].attempt})

LiveCallStart(k) ==
  /\ started < MaxLiveCalls
  /\ nextHandle + Reserved + RetryCount + 1 <= MaxHandles
  /\ CallStart(k)

LiveReconnectTimerFires ==
  /\ nextHandle + Reserved < MaxHandles
  /\ ReconnectTimerFires

NextCallLive ==
  \/ \E k \in Calls : LiveCallStart(k)
  \/ \E k \in Calls : EnsureRejected(k)
  \/ \E k \in Calls : CallResume(k)
  \/ \E k \in Calls : InvokeDone(k)
  \/ \E k \in Calls : SleepDone(k)
  \/ \E k \in Calls : CallReturn(k)
  \/ \E a \in Handles : WaitForReadyDone(a)
  \/ LiveReconnectTimerFires
  \/ \E pr \in Handles : MonitorProbe(pr)
  \/ Close

InitCallLive == Constructed(TRUE)

SpecCallLive ==
  /\ InitCallLive
  /\ [][NextCallLive]_vars
  /\ \A k \in Calls : /\ WF_vars(EnsureRejected(k))
                       /\ WF_vars(CallResume(k))
                       /\ WF_vars(InvokeDone(k))
                       /\ WF_vars(SleepDone(k))
                       /\ WF_vars(CallReturn(k))
  /\ \A a \in Handles : WF_vars(WaitForReadyDone(a))

\* a step in which a connect attempt fails: the waitForReady callback of a
\* pending attempt reports an error, or the factory throws in connect()
WaitForReadyFails ==
  \E a \in cm.pending : a \notin cm'.pending /\ "connected" \notin Range(cm'.emitted)

FactoryFails == "connecting" \in Range(cm'.emitted) /\ cm'.pending = cm.pending

ConnectAttemptFails == WaitForReadyFails \/ FactoryFails

\* ===================================================================== claims

\* C1 (I2): at every moment at most one connect attempt is awaiting
\* waitForReady, whatever the interleaving of ensureConnected() calls,
\* reconnect-timer firings, handleConnectionLost() and close().
C1_SingleConnectAttempt == Cardinality(cm.pending) <= 1

\* C2 (I6): once close() has been called the state is never CONNECTING,
\* RECONNECTING or CONNECTED again.
C2_ClosedStaysDisconnected == cm.isShuttingDown => cm.state = "DISCONNECTED"

\* C3 (I1): state = CONNECTED if and only if a transport handle exists, taken
\* between the manager's operations, when no connect attempt is suspended.
C3_ConnectedIffHandle ==
  cm.pending = {} => (cm.state = "CONNECTED" <=> cm.client # NULL)

\* C4 (P5): when the ensureConnected() calls awaiting the first connect
\* attempt of a client resolve, the factory and waitForReady have been
\* invoked exactly once and every caller gets the same answer: true exactly
\* when that attempt succeeded.
C4_Fresh == ~cm.lastConnectedAt /\ ~cm.lastErrorAt

C4_ConnectDeduplicated ==
  [][(C4_Fresh /\ \E p \in Callers : awaiting[p] # NULL /\ result'[p] # "none")
       => /\ nextHandle' = 1
          /\ wfrCalls' = 1
          /\ \A p \in Callers :
               awaiting[p] # NULL =>
                 result'[p] = IF cm'.lastConnectedAt THEN "true" ELSE "false"]_vars

C4_Witness ==
  /\ \A p \in Callers : result[p] = "true"
  /\ nextHandle = 1
  /\ wfrCalls = 1

\* C5 (S5): after a close() called while a reconnect timer was armed, no
\* 'connecting' event is emitted, no timer is armed, the state is DISCONNECTED
\* and no ensureConnected() resolves true.
C5_CloseCancelsReconnect ==
  cm.closedArmed =>
    /\ "connecting" \notin Range(cm.emitted)
    /\ ~cm.reconnectTimer
    /\ cm.state = "DISCONNECTED"
    /\ \A p \in Procs : result[p] # "true"

\* C6 (S1): a call whose first k >= 1 attempts failed with a retryable code
\* and whose next attempt succeeded returns the payload, counts one success,
\* no failure and k retries.
C6_RetryThenSucceed ==
  \A k \in Calls :
    (pc[k] = "done" /\ call[k].led.succ = 1 /\ call[k].attempt >= 1) =>
      /\ call[k].out.kind = "value"
      /\ call[k].led.fail = 0
      /\ call[k].led.retries = call[k].attempt

\* C7: one call() invokes the transport at most retryCount + 1 times (at most
\* once with skipRetry), exactly retryCount + 1 times when it ends in failure
\* with every attempt failed by a retryable code, and records at most
\* retryCount retries (none with skipRetry).
C7_BoundedAttempts ==
  \A k \in Calls :
    /\ call[k].led.inv <= RetryCount + 1
    /\ call[k].led.retries <= RetryCount
    /\ call[k].skipRetry => (call[k].led.inv <= 1 /\ call[k].led.retries = 0)
    /\ (/\ pc[k] = "done"
        /\ ~call[k].skipRetry
        /\ call[k].led.fail = 1
        /\ isRetryableError(call[k].lastError)) => call[k].led.inv = RetryCount + 1

C7_Witness ==
  \E k \in Calls :
    /\ pc[k] = "done"
    /\ ~call[k].skipRetry
    /\ call[k].led.fail = 1
    /\ call[k].lastError.code = "UNAVAILABLE"
    /\ call[k].led.inv = RetryCount + 1
    /\ call[k].led.retries = RetryCount

\* C8 (P2): every completed call() has performed exactly one of recordSuccess
\* and recordFailure, so that successfulCalls + failedCalls = totalCalls
\* whenever no call is in flight.
C8_Conservation ==
  \A k \in Calls :
    pc[k] = "done" => call[k].led.succ + call[k].led.fail = 1

\* C9 (I4): in every reachable state, with calls in flight and with
\* resetMetrics() between a call's start and its completion,
\* successfulCalls + failedCalls <= totalCalls.
C9_CompletedAtMostStarted ==
  metrics.successfulCalls + metrics.failedCalls <= metrics.totalCalls

\* C10: a call using the fallback cache that ends in failure after a retryable
\* error on its last attempt, while an entry is stored under its cache key,
\* returns that entry's value, with failedCalls + 1, cacheHits + 1 and
\* cacheMisses unchanged.
C10_StaleCacheOnExhaustion ==
  [][\A k \in Calls :
       (/\ pc[k] # "done" /\ pc'[k] = "done"
        /\ call'[k].useCache
        /\ call'[k].led.fail = 1
        /\ isRetryableError(call'[k].lastError)
        /\ CacheHas(cache, call'[k].key))
       => /\ call'[k].out.kind = "value"
          /\ call'[k].out.val = cache[CacheValue(cache, call'[k].key)].v
          /\ metrics'.failedCalls = metrics.failedCalls + 1
          /\ metrics'.cacheHits = metrics.cacheHits + 1
          /\ metrics'.cacheMisses = metrics.cacheMisses
          /\ call'[k].led.hits = 1
          /\ call'[k].led.misses = 0]_vars

C10_Witness ==
  \E k \in Calls :
    /\ pc[k] = "done"
    /\ call[k].useCache
    /\ call[k].attempt = RetryCount
    /\ call[k].led.inv = RetryCount + 1
    /\ call[k].led.fail = 1
    /\ isRetryableError(call[k].lastError)
    /\ call[k].led.hits = 1
    /\ call[k].led.misses = 0
    /\ call[k].out.kind = "value"

\* C11: when ensureConnected() resolved false inside a call attempt, call()
\* returns the cached value and counts one cache hit if the cache is in use
\* and holds an entry under the key; otherwise it raises '<serviceName> is
\* not available' and counts one cache miss (at most one is required here
\* when the cache is not in use).
C11_UnavailablePath ==
  [][\A k \in Calls :
       (pc[k] = "ecfalse" /\ pc'[k] # "ecfalse") =>
         /\ pc'[k] = "done"
         /\ IF call[k].useCache /\ CacheHas(cache, call[k].key)
            THEN /\ call'[k].out.kind = "value"
                 /\ call'[k].out.val = cache[CacheValue(cache, call[k].key)].v
                 /\ call'[k].led.hits = call[k].led.hits + 1
                 /\ call'[k].led.misses = call[k].led.misses
            ELSE /\ call'[k].out.kind = "error"
                 /\ call'[k].out.err.message = "TestService is not available"
                 /\ call'[k].led.hits = call[k].led.hits
                 /\ call'[k].led.misses <= call[k].led.misses + 1
                 /\ call[k].useCache => call'[k].led.misses = call[k].led.misses + 1]_vars

C13_CallAfterClose ==
  \A k \in Calls :
    call[k].afterClose =>
      /\ call[k].led.inv = 0
      /\ call[k].attempt = 0
      /\ pc[k] \notin {"invoking", "sleeping"}
      /\ pc[k] = "done" => call[k].out.kind = "error"

\* C14: when a connect attempt fails while the manager is not shutting down,
\* no reconnect timer is armed and reconnectAttempts < maxReconnectAttempts,
\* the error is recorded, the state is DISCONNECTED and a reconnect timer is
\* armed, with or without an application handler for 'error'.
C14_FailureSchedulesReconnect ==
  [][(/\ ConnectAttemptFails
      /\ ~cm.isShuttingDown
      /\ ~cm.reconnectTimer
      /\ cm.reconnectAttempts < MaxReconnectAttempts)
     => /\ cm'.lastErrorAt
        /\ cm'.lastError
        /\ cm'.state = "DISCONNECTED"
        /\ cm'.reconnectTimer]_vars

\* C15: with the client not closed, reconnect attempts not exhausted and,
\* from the second handle on, every waitForReady succeeding and every channel
\* READY, a DISCONNECTED state after the first connect attempt leads to the
\* state being CONNECTED for ever, with no call from the application.
C15_AutoReconnect ==
  (nextHandle > 0 /\ cm.pending = {} /\ cm.state = "DISCONNECTED")
    ~> [](cm.state = "CONNECTED")

\* C16 (S4): when a probe of the current handle's channel finds it failed
\* while CONNECTED, the state becomes DISCONNECTED, 'disconnected' is
\* emitted, the handle is closed and released, and a reconnect timer is
\* armed whose delay lies in [initialReconnectDelayMs,
\* initialReconnectDelayMs + 1000]; 'connected' is emitted only by the
\* completion of an attempt, whose start emitted 'connecting'.
C16_MonitorDetectsLoss ==
  [][/\ (/\ cm.state = "CONNECTED" /\ cm.client # NULL
         /\ cm.client \in cm.probes /\ cm.client \notin cm'.probes
         /\ ~cm'.isShuttingDown)
        => /\ cm'.state = "DISCONNECTED"
           /\ "disconnected" \in Range(cm'.emitted)
           /\ cm'.client = NULL
           /\ cm.client \notin cm'.open
           /\ cm'.reconnectTimer
           /\ \A d \in ReconnectDelays(cm') :
                /\ d >= InitialReconnectDelayMs
                /\ d <= InitialReconnectDelayMs + 1000
     /\ "connected" \in Range(cm'.emitted) => cm.pending # cm'.pending
     /\ (cm'.pending \ cm.pending # {}) => "connecting" \in Range(cm'.emitted)]_vars

\* C17: reconnectAttempts never exceeds maxReconnectAttempts and a successful
\* connect resets it to 0; when an attempt fails with the attempts used up
\* and no reconnect timer left, the manager is DISCONNECTED with no timer
\* armed, and from such a state only ensureConnected() starts a connect().
C17_ReconnectBudget ==
  [][/\ cm'.reconnectAttempts <= MaxReconnectAttempts
     /\ "connected" \in Range(cm'.emitted) => cm'.reconnectAttempts = 0
     /\ (/\ cm.reconnectAttempts = MaxReconnectAttempts
         /\ \/ ConnectAttemptFails /\ ~cm.reconnectTimer
            \/ FactoryFails /\ \A p \in Callers : pc'[p] = pc[p])
        => /\ cm'.state = "DISCONNECTED"
           /\ ~cm'.reconnectTimer
           /\ cm'.timers = 0
           /\ cm'.reconnectAttempts = MaxReconnectAttempts
     /\ (/\ cm.reconnectAttempts = MaxReconnectAttempts
         /\ cm.timers = 0
         /\ "connecting" \in Range(cm'.emitted))
        => \E p \in Callers : pc[p] = "idle" /\ pc'[p] \in {"wait", "ownrej"}]_vars

C17_Witness ==
  /\ cm.reconnectAttempts = MaxReconnectAttempts
  /\ cm.timers = 0
  /\ cm.pending = {}
  /\ cm.state = "DISCONNECTED"
  /\ cm.lastErrorAt
  /\ ~cm.isShuttingDown

\* C18 (I3): at most one reconnect callback is pending, it is the one in the
\* timer slot, and none is pending after close().
C18_SingleReconnectTimer ==
  /\ cm.timers <= 1
  /\ cm.reconnectTimer <=> cm.timers = 1
  /\ cm.isShuttingDown => cm.timers = 0

C18_Witness ==
  /\ cm.timers = 1
  /\ cm.reconnectTimer
  /\ cm.pending # {}
  /\ cm.reconnectAttempts < MaxReconnectAttempts

\* C19: at most one handle created by the factory is open at any time.
C19_SingleOpenHandle == Cardinality(cm.open) <= 1

\* C20: an ensureConnected() resolves true only when the manager is connected
\* (state CONNECTED and a handle present) at that moment, and false only when
\* it is not.
C20_EnsureConnectedAnswer ==
  \A p \in Callers :
    /\ result[p] = "true" => isConnected(cm)
    /\ result[p] = "false" => ~isConnected(cm)

\* C21: every 'connected' and every 'error' follows the 'connecting' of its
\* own attempt with no outcome of another attempt in between, 'connected' is
\* emitted only by the completion of an attempt, and after a 'disconnected'
\* emitted for a lost connection no 'connected' comes before a 'connecting'.
C21_CausalEventOrder ==
  [][/\ \A a \in cm.pending \ cm'.pending :
          ("connected" \in Range(cm'.emitted) \/ "error" \in Range(cm'.emitted))
            => a \notin cm.overtaken
     /\ "connected" \in Range(cm'.emitted)
          => (cm.pending \ cm'.pending # {} /\ ~cm.lost)
     /\ ("error" \in Range(cm'.emitted) /\ cm'.pending = cm.pending)
          => cm'.emitted = <<"connecting", "error">>]_vars

\* C22: the close() that shuts the client down delivers exactly one
\* 'disconnected' to the application's handlers, and no step after it
\* delivers any event: not the completion or failure of a connect attempt,
\* not a timer, not another close().
C22_CloseDetachesListeners ==
  [][/\ (~cm.isShuttingDown /\ cm'.isShuttingDown)
          => cm'.delivered = <<"disconnected">>
     /\ cm.isShuttingDown => (cm'.delivered = <<>> /\ ~cm'.listening)]_vars

C22_Witness ==
  /\ cm.isShuttingDown
  /\ "connected" \in Range(cm.emitted)
  /\ cm.delivered = <<>>

\* C23 (I5, P3): a FallbackCache never holds more than maxSize entries, and
\* a set() of a new key into a full cache evicts exactly one entry, the one
\* whose last use (a set() or a get() of its key) is the oldest.
C23_LruBound ==
  [][/\ Len(cache') <= config.maxCacheSize
     /\ (/\ obs'.op = "set"
         /\ ~CacheHas(cache, obs'.arg)
         /\ Len(cache) = config.maxCacheSize)
        => /\ Len(cache') = Len(cache)
           /\ ~CacheHas(cache', obs.used[1])
           /\ \A k \in CacheKeys :
                (CacheHas(cache, k) /\ k # obs.used[1]) => CacheHas(cache', k)]_vars

\* C24 (P4), as claimed: a get(k) after set(k, v) and the passage of more
\* than the TTL returns v and leaves the entry in the cache, unless k was
\* deleted or the cache cleared in between.
C24_StaleAllowed ==
  [][(/\ obs'.op = "get"
      /\ obs.live[obs'.arg] # "none"
      /\ obs'.arg \in obs.expired)
     => /\ obs'.ret = obs.live[obs'.arg]
        /\ CacheHas(cache', obs'.arg)]_vars

\* C24 as amended: the same, unless the entry was evicted by a set() of
\* another key or purged by cleanup() in between.
C24_StaleAllowedWhileHeld ==
  [][(/\ obs'.op = "get"
      /\ obs.live[obs'.arg] # "none"
      /\ obs'.arg \in obs.expired
      /\ obs'.arg \in Range(obs.used))
     => /\ obs'.ret = obs.live[obs'.arg]
        /\ CacheHas(cache', obs'.arg)
        /\ CacheRead(cache', obs'.arg) = obs.live[obs'.arg]]_vars

C24_Witness ==
  /\ obs.op = "get"
  /\ obs.arg \in obs.expired
  /\ obs.ret \in Responses
  /\ CacheHas(cache, obs.arg)
  /\ cache[CacheValue(cache, obs.arg)].stale

\* C25 (P6, S6): two requests with the same fields and values, inserted
\* in different orders, get the same cache key, whether the object is flat
\* with at most 10 keys, has a nested value or has more than 10 keys; and
\* {a: 1, b: 2} gives "M:a=1&b=2" in either order.
C25_KeyDeterminism ==
  [][/\ generateCacheKey(obs'.arg.methodName, obs'.arg.request)
          = generateCacheKey(obs.arg.methodName, obs.arg.request)
     /\ (/\ obs.arg.methodName = <<"M">>
         /\ Len(obs.arg.request.f) = 2
         /\ \A i \in 1..2 :
              \/ /\ obs.arg.request.f[i].key = <<"a">>
                 /\ obs.arg.request.f[i].val = Prim("number", <<"1">>)
              \/ /\ obs.arg.request.f[i].key = <<"b">>
                 /\ obs.arg.request.f[i].val = Prim("number", <<"2">>))
        => obs.ret = <<"M", ":", "a", "=", "1", "&", "b", "=", "2">>]_vars

\* C26: the snapshot a getMetrics() returns holds the tracker's counters as
\* they are at that moment, as if it were rebuilt on every read, and no
\* operation changes a snapshot that was created earlier.
C26_SnapshotNeverStale ==
  [][/\ obs'.op = "getMetrics" => metrics'.heap[obs'.ret] = Snapshot(metrics)
     /\ \A i \in 1..Len(metrics.heap) :
          i <= Len(metrics'.heap) /\ metrics'.heap[i] = metrics.heap[i]]_vars

C26_Witness ==
  /\ obs.op = "getMetrics"
  /\ obs.ret = 2
  /\ metrics.heap[2] # metrics.heap[1]
  /\ metrics.heap[2].totalRetries = 1

\* C27 (P7): a getMetrics() that follows a getMetrics() with no record* and
\* no reset in between returns the same object.
C27_SnapshotStable ==
  [][(obs'.op = "getMetrics" /\ obs'.again) => obs'.ret = obs.ret]_vars

C27_Witness ==
  /\ obs.op = "getMetrics"
  /\ obs.again
  /\ obs.ret = 2

\* C28 (P1): no operation but reset() decreases totalCalls, successfulCalls,
\* failedCalls or totalRetries, and reset() puts every counter and latency
\* aggregate back to its initial value.
C28_MetricsMonotonic ==
  [][/\ obs'.op # "reset"
          => /\ metrics'.totalCalls >= metrics.totalCalls
             /\ metrics'.successfulCalls >= metrics.successfulCalls
             /\ metrics'.failedCalls >= metrics.failedCalls
             /\ metrics'.totalRetries >= metrics.totalRetries
     /\ obs'.op = "reset"
          => /\ Snapshot(metrics') = Snapshot(InitMetrics)
             /\ metrics'.latencySum = 0
             /\ metrics'.minLatencyMs = INFINITY]_vars

C28_Witness ==
  /\ obs.op = "reset"
  /\ Len(metrics.heap) = 1
  /\ metrics.heap[1].successfulCalls = 1
  /\ metrics.heap[1].totalRetries = 1
  /\ metrics.heap[1].maxLatencyMs = 4

\* C29: getSuccessRate() lies between 0 and 100 in every state the client
\* reaches, with resetMetrics() called while calls are in flight.
C29_SuccessRateRange ==
  /\ getSuccessRate(metrics) >= 0
  /\ getSuccessRate(metrics) <= 100

\* C30: a checkState timer of a monitor loop acts only on the handle its loop
\* was started for: it takes the state out of CONNECTED only when it belongs
\* to the current handle and that handle's channel has failed, it leaves
\* the state and the handle alone when it belongs to an earlier handle, and
\* no more than one monitor loop is live.
C30_MonitorOwnHandle ==
  [][\A pr \in Handles, st \in ProbeResults :
       ProbeFires(pr, st)
         => /\ (cm.state = "CONNECTED" /\ cm'.state # "CONNECTED")
                 => (pr = cm.client /\ st = "FAILED")
            /\ pr # cm.client => (cm'.state = cm.state /\ cm'.client = cm.client)
            /\ Cardinality(cm'.probes) <= 1]_vars

\* C31: no reconnect timer is armed while the state is CONNECTED, and a
\* reconnect timer that fires on a CONNECTED manager leaves the state and
\* the handle as they are and emits no 'connecting'.
C31_NoReconnectWhileConnected ==
  [][/\ cm'.state = "CONNECTED" => ~cm'.reconnectTimer
     /\ (ReconnectTimerFires /\ cm.state = "CONNECTED")
          => /\ cm'.state = "CONNECTED"
             /\ cm'.client = cm.client
             /\ "connecting" \notin Range(cm'.emitted)]_vars

\* C32: the step in which an invocation of a call fails leaves the manager
\* as handleConnectionLost() leaves it when the wire code is UNAVAILABLE,
\* whichever attempt of the call it is, and leaves the manager unchanged
\* when the wire code is another one.
C32_UnavailableLosesConnection ==
  [][\A k \in Calls :
       (/\ pc[k] = "invoking" /\ pc'[k] # "invoking"
        /\ call'[k].led.succ = call[k].led.succ)
         => cm' = IF call'[k].wire.code = "UNAVAILABLE"
                  THEN handleConnectionLost(Quiet(cm))
                  ELSE Quiet(cm)]_vars

\* C33, as claimed: when ensureConnected() resolved false inside a call
\* attempt and no cached value is served, call() ends in that step with an
\* error, without an invocation or a sleep, with one failure counted and
\* totalRetries unchanged.
C33_UnavailableRaisesAtOnce ==
  [][\A k \in Calls :
       (/\ pc[k] = "ecfalse" /\ pc'[k] # "ecfalse"
        /\ ~(call[k].useCache /\ CacheHas(cache, call[k].key)))
       => /\ pc'[k] = "done"
          /\ call'[k].out.kind = "error"
          /\ call'[k].led.inv = call[k].led.inv
          /\ call'[k].led.fail = call[k].led.fail + 1
          /\ metrics'.failedCalls = metrics.failedCalls + 1
          /\ call'[k].led.retries = call[k].led.retries
          /\ metrics'.totalRetries = metrics.totalRetries]_vars

\* C33 as amended: the same, except that the attempt itself is recorded as
\* a retry when it is not the call's first attempt.
C33_UnavailableEndsCall ==
  [][\A k \in Calls :
       (/\ pc[k] = "ecfalse" /\ pc'[k] # "ecfalse"
        /\ ~(call[k].useCache /\ CacheHas(cache, call[k].key)))
       => LET retried == IF call[k].attempt > 0 THEN 1 ELSE 0
          IN /\ pc'[k] = "done"
             /\ call'[k].out.kind = "error"
             /\ call'[k].led.inv = call[k].led.inv
             /\ call'[k].led.fail = call[k].led.fail + 1
             /\ metrics'.failedCalls = metrics.failedCalls + 1
             /\ call'[k].led.retries = call[k].led.retries + retried
             /\ metrics'.totalRetries = metrics.totalRetries + retried]_vars

C33_Witness ==
  \E k \in Calls :
    /\ pc[k] = "done"
    /\ ~call[k].skipRetry
    /\ call[k].attempt = 1
    /\ call[k].out.kind = "error"
    /\ call[k].out.err = NotAvailable
    /\ call[k].led.inv = 1
    /\ call[k].led.fail = 1
    /\ call[k].led.retries = 1

\* C34: one call() counts at most one cache hit or miss: exactly one when
\* it has failed with the cache in use, none when it has succeeded.
C34_OneCacheCount ==
  \A k \in Calls :
    LET counted == call[k].led.hits + call[k].led.misses
    IN /\ counted <= 1
       /\ (pc[k] = "done" /\ call[k].led.fail = 1 /\ call[k].useCache) => counted = 1
       /\ (pc[k] = "done" /\ call[k].led.succ = 1) => counted = 0

\* C35: once close() has been called the fallback cache holds no entry, and
\* no call issued after close() returns a value.
C35_CacheEmptyAfterClose ==
  /\ cm.isShuttingDown => cache = <<>>
  /\ \A k \in Calls : call[k].afterClose => call[k].out.kind # "value"

\* C36: a step of a call that does not use the cache (enableFallbackCache
\* false or skipCache set) leaves the cache, cacheHits and cacheMisses as
\* they are; a step of a call that uses the cache changes the cache only by
\* reading the entry under the call's key or, when the step is the success
\* of an attempt, by setting the response under the call's key.
C36_CacheOnlyWhenInUse ==
  [][\A k \in Calls :
       (pc'[k] # pc[k] \/ call'[k] # call[k])
       => LET useCache == IF pc[k] = "idle" THEN call'[k].useCache
                          ELSE call[k].useCache
          IN /\ ~useCache
                  => /\ cache' = cache
                     /\ metrics'.cacheHits = metrics.cacheHits
                     /\ metrics'.cacheMisses = metrics.cacheMisses
                     /\ pc'[k] # "idle" => /\ call'[k].led.hits = 0
                                           /\ call'[k].led.misses = 0
             /\ (useCache /\ cache' # cache)
                  => \/ cache' = CacheGet(cache, call[k].key)
                     \/ /\ call'[k].led.succ = call[k].led.succ + 1
                        /\ cache' = CacheSet(cache, call[k].key, call'[k].out.val)]_vars

C36_Witness ==
  \E k \in Calls :
    /\ pc[k] = "done"
    /\ config.enableFallbackCache
    /\ ~call[k].useCache
    /\ CacheHas(cache, call[k].key)
    /\ call[k].out.kind = "error"
    /\ call[k].led.fail = 1
    /\ call[k].led.hits = 0
    /\ call[k].led.misses = 0

\* C37: for an entry that was set, is past its TTL and is still held
\* (neither deleted, cleared, evicted nor purged), has(key) answers true,
\* as get(key) answers the value.
C37_HasRegardlessOfExpiry ==
  [][(/\ obs'.op = "has"
      /\ obs.live[obs'.arg] # "none"
      /\ obs'.arg \in obs.expired
      /\ obs'.arg \in Range(obs.used))
     => /\ CacheRead(cache, obs'.arg) = obs.live[obs'.arg]
        /\ obs'.ret = TRUE]_vars

\* C38: a flat object of primitive values and any other such object that
\* differs from it in its set of fields, or in the value or the type of a
\* field, get different cache keys for the same method.
C38_DistinctKeys ==
  \A r \in Requests :
    LET request == obs.arg.request
        Flat(x) == x.t = "object" /\ isSimple(x.f)
        Fields(x) == {x.f[i] : i \in 1..Len(x.f)}
    IN (Flat(request) /\ Flat(r) /\ Fields(request) # Fields(r))
         => generateCacheKey(obs.arg.methodName, r) # obs.ret

\* C39: the latencyMs of a health report is the latency of the most recent
\* successful call, 0 when there has been none.
C39_HealthLatencyIsLast ==
  [][obs'.op = "getHealth" => obs'.ret.latencyMs = obs.lastLatency]_vars

\* C40: under fair scheduling every call() that has been invoked comes to
\* its end, returning a value or raising, also when close() or a connection
\* loss happens while it is in flight.
C40_CallTerminates ==
  \A k \in Calls : (pc[k] # "idle") ~> (pc[k] = "done")

C40_Witness ==
  \E k \in Calls :
    /\ pc[k] = "done"
    /\ cm.isShuttingDown
    /\ ~call[k].afterClose
    /\ call[k].attempt = 1
    /\ call[k].out.kind = "error"

TypeOK ==
  /\ cm.state \in ConnectionState
  /\ cm.client \in {NULL} \cup Handles
  /\ cm.pending \subseteq Handles
  /\ nextHandle \in 0..MaxHandles
  /\ cm.reconnectAttempts \in 0..MaxReconnectAttempts
  /\ cm.timers \in 0..1
  /\ \A k \in Calls : call[k].attempt \in 0..RetryCount

====
